---- MODULE Spec2Model ----
(***************************************************************************)
(* Model of the AMeDAS hourly weather pipeline:                            *)
(*   src/amedas.py                 scraper + upsert into the processed CSV *)
(*   src/weather_streamlit_app.py  add_gdd_columns (growing degree days)   *)
(*                                                                         *)
(* A table cell is a record [kind, n].  kind tells what the cell holds:    *)
(*   "date"   a parsable date, n = day of the month YEAR-MONTH             *)
(*   "int"    an integer n (Int64 hour, or a number read from the CSV)     *)
(*   "numstr" a numeric text, n = its value in tenths ("24" -> 240)        *)
(*   "num"    a measurement, n = its value                                 *)
(*   ""       the empty text          "///"  the JMA missing marker        *)
(*   "nan"    the text "nan"          "text" a non numeric text            *)
(*   "inf"    the text "inf"          "NA"   pd.NA / NaN / NaT             *)
(***************************************************************************)
EXTENDS Integers, Sequences, FiniteSets, TLC

VARIABLES
    file,        \* the processed CSV (OUTPUT_CSV): exists, cols, rows
    prevFile,    \* the CSV as it was before the last upsert call
    lastBatch,   \* df_new of the last upsert call
    lastCall,    \* "none" | "returned" | "raised": how the last call ended
    pc,          \* position of main
    day,         \* loop variable of main
    all_data,    \* rows collected by main
    attempted,   \* days for which scrape_one_day was called, in call order
    outcome,     \* per day: how the scrape of this run ended
    driver,      \* "none" | "open" | "quit"
    fileAtStart, \* the CSV when the current run of main started
    hx,          \* argument of to_int_hour
    hres,        \* its result
    daily_df,    \* argument of add_gdd_columns
    gdd_out      \* its result

vars == <<file, prevFile, lastBatch, lastCall, pc, day, all_data, attempted,
          outcome, driver, fileAtStart, hx, hres, daily_df, gdd_out>>

upsertVars == <<file, prevFile, lastBatch, lastCall>>
mainVars   == <<pc, day, all_data, attempted, outcome, driver, fileAtStart>>
hourVars   == <<hx, hres>>
gddVars    == <<daily_df, gdd_out>>

----------------------------------------------------------------------------
(* Bounds *)

MaxBatch      == 2     \* longest df_new of a direct upsert call
days_in_month == 2     \* days of the scraped month (28 for YEAR-MONTH)
MaxHour       == 26    \* largest hour text given to to_int_hour
MaxDays       == 3     \* longest daily table given to add_gdd_columns

----------------------------------------------------------------------------
(* Cells *)

Cell(k, v) == [kind |-> k, n |-> v]
NA         == Cell("NA", 0)
Blank      == Cell("", 0)
Slashes    == Cell("///", 0)
Overflow   == Cell("OverflowError", 0)

UnitCol  == "kion(C)"     \* the column with the unit in its name
PlainCol == "kion"        \* the internal name of the same column

\* df.replace({"": pd.NA, "///": pd.NA}) on one cell
Replace(c) == IF c.kind \in {"", "///"} THEN NA ELSE c

\* int(float(s)): truncation toward zero of a value given in tenths
IntOfTenths(t) == IF t >= 0 THEN t \div 10 ELSE -((-t) \div 10)

\* to_int_hour: '01' / '1' / 1 / '24' -> int; 24 -> 0
to_int_hour(x) ==
    IF x.kind \in {"", "nan"} THEN NA
    ELSE IF x.kind = "inf" THEN Overflow          \* int(float("inf")): OverflowError, not caught
    ELSE IF x.kind \notin {"int", "numstr"} THEN NA   \* ValueError -> pd.NA
    ELSE LET h == IF x.kind = "int" THEN x.n ELSE IntOfTenths(x.n)
         IN  Cell("int", IF h = 24 THEN 0 ELSE h)

\* pd.to_datetime(errors="coerce").dt.strftime("%Y-%m-%d") on one cell
to_datetime(c) == IF c.kind = "date" THEN c ELSE NA

----------------------------------------------------------------------------
(* Tables: [cols : set of measurement columns, rows : sequence of rows];   *)
(* a row is [date, hour, vals] with vals a function on cols.               *)

Key(r) == <<r.date.n, r.hour.n>>

KeyLeq(a, b) ==
    \/ a.date.n < b.date.n
    \/ a.date.n = b.date.n /\ a.hour.n <= b.hour.n

KeyLess(a, b) ==
    \/ a.date.n < b.date.n
    \/ a.date.n = b.date.n /\ a.hour.n < b.hour.n

InsertRow(s, r) ==
    LET k == Cardinality({i \in 1..Len(s) : KeyLeq(s[i], r)})
    IN  SubSeq(s, 1, k) \o <<r>> \o SubSeq(s, k + 1, Len(s))

RECURSIVE StableSort(_)
StableSort(rows) ==
    IF rows = <<>> THEN <<>>
    ELSE InsertRow(StableSort(SubSeq(rows, 1, Len(rows) - 1)), rows[Len(rows)])

\* variant: the rows are left in the order they came
SortValues_unsorted(rows) == rows

\* sort_values(["date", "hour"]): two sort columns, a stable lexsort
SortValues(rows) == StableSort(rows)

\* variant: rows without a key are kept
DropNa_keep(rows) == rows

\* dropna(subset=["date", "hour"])
DropNa(rows) == SelectSeq(rows, LAMBDA r : r.date # NA /\ r.hour # NA)

\* the per-row part of normalize_df: replace, date, hour
NormRow(r) ==
    [date |-> to_datetime(Replace(r.date)),
     hour |-> to_int_hour(Replace(r.hour)),
     vals |-> [c \in DOMAIN r.vals |-> Replace(r.vals[c])]]

\* to_int_hour raises inside normalize_df
Raises(df) == \E i \in 1..Len(df.rows) : NormRow(df.rows[i]).hour = Overflow

normalize_df(df) ==
    [cols |-> df.cols,
     rows |-> SortValues(DropNa([i \in 1..Len(df.rows) |-> NormRow(df.rows[i])]))]

\* harmonize_schema on the one (unit column, plain column) pair of the model
HarmRow(cols, r) ==
    IF UnitCol \in cols
    THEN LET plain == IF PlainCol \in cols THEN Replace(r.vals[PlainCol]) ELSE NA
             unit  == Replace(r.vals[UnitCol])
         IN  [r EXCEPT !.vals = [c \in {PlainCol} |-> IF plain = NA THEN unit ELSE plain]]
    ELSE [r EXCEPT !.vals = [c \in cols |-> Replace(r.vals[c])]]

harmonize_schema(df) ==
    [cols |-> IF UnitCol \in df.cols THEN {PlainCol} ELSE df.cols,
     rows |-> [i \in 1..Len(df.rows) |-> HarmRow(df.cols, df.rows[i])]]

Widen(cols, r) ==
    [r EXCEPT !.vals = [c \in cols |-> IF c \in DOMAIN r.vals THEN r.vals[c] ELSE NA]]

\* variant: the stored rows are not carried over
Concat_newOnly(a, b) == b

\* pd.concat([a, b], ignore_index=True)
Concat(a, b) ==
    LET cols == a.cols \cup b.cols
    IN  [cols |-> cols,
         rows |-> [i \in 1..Len(a.rows) |-> Widen(cols, a.rows[i])]
                  \o [i \in 1..Len(b.rows) |-> Widen(cols, b.rows[i])]]

RECURSIVE KeepLast(_)
KeepLast(rows) ==
    IF rows = <<>> THEN <<>>
    ELSE LET last == rows[Len(rows)]
         IN  KeepLast(SelectSeq(SubSeq(rows, 1, Len(rows) - 1),
                                LAMBDA r : Key(r) # Key(last))) \o <<last>>

RECURSIVE KeepFirst(_)
KeepFirst(rows) ==
    IF rows = <<>> THEN <<>>
    ELSE <<rows[1]>> \o KeepFirst(SelectSeq(SubSeq(rows, 2, Len(rows)),
                                            LAMBDA r : Key(r) # Key(rows[1])))

\* variant: no deduplication
DropDuplicates_none(rows) == rows

\* variant: keep="first"
DropDuplicates_first(rows) == KeepFirst(rows)

\* drop_duplicates(subset=["date", "hour"], keep="last")
DropDuplicates(rows) == KeepLast(rows)

CsvOut(c) == IF c = NA THEN Blank ELSE c
CsvIn(c)  == IF c = Blank THEN NA ELSE c

\* to_csv: a missing value is written as the empty field
to_csv(df) ==
    [exists |-> TRUE,
     cols   |-> df.cols,
     rows   |-> [i \in 1..Len(df.rows) |->
                   [date |-> CsvOut(df.rows[i].date),
                    hour |-> CsvOut(df.rows[i].hour),
                    vals |-> [c \in df.cols |-> CsvOut(df.rows[i].vals[c])]]]]

\* read_csv: an empty field is read as NaN
read_csv(f) ==
    [cols |-> f.cols,
     rows |-> [i \in 1..Len(f.rows) |->
                 [date |-> CsvIn(f.rows[i].date),
                  hour |-> CsvIn(f.rows[i].hour),
                  vals |-> [c \in f.cols |-> CsvIn(f.rows[i].vals[c])]]]]

NoFile == [exists |-> FALSE, cols |-> {}, rows |-> <<>>]

\* upsert_to_processed_csv(df_new, output_csv): the file it leaves
UpsertResult(f, df_new) ==
    LET df_all ==
            IF f.exists
            THEN Concat(harmonize_schema(normalize_df(read_csv(f))),
                        harmonize_schema(normalize_df(df_new)))
            ELSE normalize_df(df_new)
    IN  to_csv([cols |-> df_all.cols,
                rows |-> SortValues(DropDuplicates(df_all.rows))])

----------------------------------------------------------------------------
(* Inputs of the direct upsert calls *)

Dates    == {Cell("date", 1), Cell("date", 2)}
BadDate  == Cell("text", 0)
Hours    == {Cell("numstr", 10), Cell("numstr", 240)}     \* "1", "24"
Values   == {Cell("num", 5), Slashes}

RawRowsFor(col) ==
    {[date |-> d, hour |-> h, vals |-> [c \in {col} |-> v]] :
        d \in Dates, h \in Hours, v \in Values}
    \cup {[date |-> BadDate, hour |-> Cell("numstr", 10), vals |-> [c \in {col} |-> Cell("num", 5)]],
          [date |-> Cell("date", 1), hour |-> Blank, vals |-> [c \in {col} |-> Cell("num", 5)]],
          [date |-> Cell("date", 1), hour |-> Cell("inf", 0), vals |-> [c \in {col} |-> Cell("num", 5)]]}

SeqsUpTo(S, n) == UNION {[1..k -> S] : k \in 1..n}

Batches ==
    {[cols |-> {col}, rows |-> rs] : col \in {UnitCol}, rs \in SeqsUpTo(RawRowsFor(UnitCol), MaxBatch)}
    \cup
    {[cols |-> {col}, rows |-> rs] : col \in {PlainCol}, rs \in SeqsUpTo(RawRowsFor(PlainCol), MaxBatch)}

EmptyDf == [cols |-> {}, rows |-> <<>>]

----------------------------------------------------------------------------
(* Direct calls of upsert_to_processed_csv *)

Upsert(df_new) ==
    /\ prevFile' = file
    /\ lastBatch' = df_new
    /\ IF Raises(df_new) \/ (file.exists /\ Raises(read_csv(file)))
       THEN /\ lastCall' = "raised"
            /\ file' = file
       ELSE /\ lastCall' = "returned"
            /\ file' = UpsertResult(file, df_new)

UpsertCall ==
    /\ lastCall = "none"
    /\ \E b \in Batches : Upsert(b)
    /\ UNCHANGED <<mainVars, hourVars, gddVars>>

\* the call is over: its arguments go out of scope
ForgetCall ==
    /\ lastCall # "none"
    /\ prevFile' = NoFile /\ lastBatch' = EmptyDf /\ lastCall' = "none"
    /\ UNCHANGED <<file, mainVars, hourVars, gddVars>>

----------------------------------------------------------------------------
(* main *)

LenColumns == 11       \* len(COLUMNS)

PageRow(h, v, n) == [hour |-> h, val |-> v, ncells |-> n]

\* what the table of one day's page can hold (rows after the two header rows)
Pages ==
    { << PageRow(Cell("numstr", 10), Cell("num", 5), LenColumns) >>,
      << PageRow(Cell("numstr", 10), Slashes, LenColumns),
         PageRow(Cell("numstr", 240), Cell("num", 5), LenColumns) >>,
      << PageRow(Cell("numstr", 10), Cell("num", 5), 3) >>,
      << >> }

\* scrape_one_day once the page is loaded: rows of len(COLUMNS) cells,
\* each prefixed by the date of the day
scrape_one_day(d, page) ==
    LET full == SelectSeq(page, LAMBDA r : r.ncells = LenColumns)
    IN  [i \in 1..Len(full) |->
            [date |-> Cell("date", d),
             hour |-> full[i].hour,
             vals |-> [c \in {UnitCol} |-> full[i].val]]]

MainIdle ==
    /\ pc = "idle" /\ day = 0 /\ all_data = <<>> /\ attempted = <<>>
    /\ outcome = <<>> /\ driver = "none" /\ fileAtStart = NoFile

MainStart ==
    /\ pc = "idle"
    /\ pc' = "loop" /\ day' = 1 /\ all_data' = <<>> /\ attempted' = <<>>
    /\ outcome' = <<>> /\ driver' = "open" /\ fileAtStart' = file
    /\ UNCHANGED <<upsertVars, hourVars, gddVars>>

AfterDay == IF day = days_in_month THEN "finally" ELSE "loop"

\* variant: a failed day ends the loop (break instead of continue)
DayFails_break ==
    /\ pc = "loop"
    /\ attempted' = Append(attempted, day)
    /\ outcome' = Append(outcome, "error")
    /\ pc' = "finally" /\ day' = day + 1
    /\ UNCHANGED <<all_data, driver, fileAtStart, upsertVars, hourVars, gddVars>>

\* the scrape raised an Exception: except ... continue
DayFails ==
    /\ pc = "loop"
    /\ attempted' = Append(attempted, day)
    /\ outcome' = Append(outcome, "error")
    /\ pc' = AfterDay /\ day' = day + 1
    /\ UNCHANGED <<all_data, driver, fileAtStart, upsertVars, hourVars, gddVars>>

\* the scrape raised something that is not an Exception (KeyboardInterrupt):
\* it leaves the loop through finally
DayInterrupted ==
    /\ pc = "loop"
    /\ attempted' = Append(attempted, day)
    /\ outcome' = Append(outcome, "interrupt")
    /\ pc' = "finally_raise"
    /\ UNCHANGED <<day, all_data, driver, fileAtStart, upsertVars, hourVars, gddVars>>

\* the scrape returned: zero rows -> continue, else all_data.extend(daily_rows)
DayScraped ==
    /\ pc = "loop"
    /\ \E page \in Pages :
         LET daily_rows == scrape_one_day(day, page)
         IN  /\ outcome' = Append(outcome, IF Len(daily_rows) = 0 THEN "zero" ELSE "rows")
             /\ all_data' = all_data \o daily_rows
    /\ attempted' = Append(attempted, day)
    /\ pc' = AfterDay /\ day' = day + 1
    /\ UNCHANGED <<driver, fileAtStart, upsertVars, hourVars, gddVars>>

\* variant: no try/finally, an error that leaves the loop skips driver.quit()
Finally_skippedOnError ==
    /\ pc \in {"finally", "finally_raise"}
    /\ driver' = IF pc = "finally" THEN "quit" ELSE driver
    /\ pc' = IF pc = "finally" THEN "check" ELSE "raised"
    /\ UNCHANGED <<day, all_data, attempted, outcome, fileAtStart,
                   upsertVars, hourVars, gddVars>>

\* finally: driver.quit()
Finally ==
    /\ pc \in {"finally", "finally_raise"}
    /\ driver' = "quit"
    /\ pc' = IF pc = "finally" THEN "check" ELSE "raised"
    /\ UNCHANGED <<day, all_data, attempted, outcome, fileAtStart,
                   upsertVars, hourVars, gddVars>>

\* variant: the upsert is called even when all_data is empty
MainFinish_noReturn ==
    /\ pc = "check"
    /\ Upsert([cols |-> {UnitCol}, rows |-> all_data])
    /\ pc' = "done"
    /\ UNCHANGED <<day, all_data, attempted, outcome, driver, fileAtStart,
                   hourVars, gddVars>>

\* if not all_data: return; else upsert_to_processed_csv(df_new, OUTPUT_CSV)
MainFinish ==
    /\ pc = "check"
    /\ IF all_data = <<>>
       THEN UNCHANGED upsertVars
       ELSE Upsert([cols |-> {UnitCol}, rows |-> all_data])
    /\ pc' = "done"
    /\ UNCHANGED <<day, all_data, attempted, outcome, driver, fileAtStart,
                   hourVars, gddVars>>

\* the process is over; the script can be run again
MainExit ==
    /\ pc \in {"done", "raised"}
    /\ pc' = "idle" /\ day' = 0 /\ all_data' = <<>> /\ attempted' = <<>>
    /\ outcome' = <<>> /\ driver' = "none" /\ fileAtStart' = NoFile
    /\ prevFile' = NoFile /\ lastBatch' = EmptyDf /\ lastCall' = "none"
    /\ UNCHANGED <<file, hourVars, gddVars>>

----------------------------------------------------------------------------
(* to_int_hour on its own *)

HourInputs ==
    {Cell(k, 0) : k \in {"", "nan", "text", "inf", "NA"}}
    \cup {Cell("numstr", t) : t \in -15..(MaxHour * 10)}
    \cup {Cell("int", h) : h \in -1..MaxHour}

HourIdle == hx = NA /\ hres = [done |-> FALSE, val |-> NA]

ApplyToIntHour ==
    /\ ~hres.done
    /\ hres' = [done |-> TRUE, val |-> to_int_hour(hx)]
    /\ UNCHANGED <<hx, upsertVars, mainVars, gddVars>>

----------------------------------------------------------------------------
(* add_gdd_columns *)

BASE_TEMP_DEFAULT == 10
GDD_START_MMDD    == <<0, 4, 0, 1>>      \* "04-01"

\* a daily row: the date text (taken apart as year, month, day when it
\* parses) and the day's mean temperature
DayDate(y, m, d) == [ok |-> TRUE, y |-> y, m |-> m, d |-> d]
BadDay           == [ok |-> FALSE, y |-> 0, m |-> 0, d |-> 0]

\* dt.strftime("%m-%d"), as its four digits
Mmdd(dt) == <<dt.m \div 10, dt.m % 10, dt.d \div 10, dt.d % 10>>

\* comparison of two texts of the same length, a >= b
RECURSIVE StrGeq(_, _)
StrGeq(a, b) ==
    IF a = <<>> THEN TRUE
    ELSE IF a[1] # b[1] THEN a[1] > b[1]
    ELSE StrGeq(Tail(a), Tail(b))

DtLeq(a, b) ==
    \/ a.y < b.y
    \/ a.y = b.y /\ a.m < b.m
    \/ a.y = b.y /\ a.m = b.m /\ a.d <= b.d

InsertDay(s, r) ==
    LET k == Cardinality({i \in 1..Len(s) : DtLeq(s[i].date, r.date)})
    IN  SubSeq(s, 1, k) \o <<r>> \o SubSeq(s, k + 1, Len(s))

\* sort_values("date_dt")
RECURSIVE SortByDate(_)
SortByDate(rows) ==
    IF rows = <<>> THEN <<>>
    ELSE InsertDay(SortByDate(SubSeq(rows, 1, Len(rows) - 1)), rows[Len(rows)])

\* variant: no clip at zero
DayGdd_noClip(temp, base_temp) ==
    IF temp = NA THEN NA ELSE Cell("num", temp.n - base_temp)

\* (temp - base_temp).clip(lower=0); a missing temperature stays missing
DayGdd(temp, base_temp) ==
    IF temp = NA THEN NA
    ELSE Cell("num", IF temp.n - base_temp < 0 THEN 0 ELSE temp.n - base_temp)

\* groupby(year)["GDD"].cumsum(): the running sum within the year; a missing
\* GDD gives a missing sum at its row and is skipped in the later ones
RECURSIVE RunningSum(_, _, _)
RunningSum(rows, i, y) ==
    IF i = 0 THEN 0
    ELSE RunningSum(rows, i - 1, y)
         + (IF rows[i].date.y = y /\ rows[i].GDD # NA THEN rows[i].GDD.n ELSE 0)

\* variant: the sum is not reset at the turn of the year
CumSum_noReset(rows, i) ==
    IF rows[i].GDD = NA THEN NA
    ELSE Cell("num", RunningSum([j \in 1..Len(rows) |->
                                    [rows[j] EXCEPT !.date.y = 0]], i, 0))

CumSum(rows, i) ==
    IF rows[i].GDD = NA THEN NA
    ELSE Cell("num", RunningSum(rows, i, rows[i].date.y))

add_gdd_columns(df, base_temp) ==
    LET parsed == SelectSeq(df, LAMBDA r : r.date.ok)
        sorted == SortByDate(parsed)
        kept   == SelectSeq(sorted, LAMBDA r : StrGeq(Mmdd(r.date), GDD_START_MMDD))
        gdd    == [i \in 1..Len(kept) |->
                     [date |-> kept[i].date, temp |-> kept[i].temp,
                      GDD |-> DayGdd(kept[i].temp, base_temp)]]
    IN  [i \in 1..Len(gdd) |->
            [date |-> gdd[i].date, temp |-> gdd[i].temp, GDD |-> gdd[i].GDD,
             cumGDD |-> CumSum(gdd, i)]]

DayDates ==
    {DayDate(y, md[1], md[2]) : y \in {2025, 2026},
                                md \in {<<3, 31>>, <<4, 1>>, <<10, 15>>}}
    \cup {BadDay}
Temps == {NA, Cell("num", 8), Cell("num", 12)}

DailyRows == {[date |-> d, temp |-> t] : d \in DayDates, t \in Temps}

\* one row per day
DailyTables ==
    {t \in UNION {[1..k -> DailyRows] : k \in 0..MaxDays} :
        \A i, j \in 1..Len(t) : i # j => t[i].date # t[j].date}

GddIdle == daily_df = <<>> /\ gdd_out = [done |-> FALSE, rows |-> <<>>]

AddGdd ==
    /\ ~gdd_out.done
    /\ gdd_out' = [done |-> TRUE, rows |-> add_gdd_columns(daily_df, BASE_TEMP_DEFAULT)]
    /\ UNCHANGED <<daily_df, upsertVars, mainVars, hourVars>>

----------------------------------------------------------------------------
(* Specifications *)

UpsertIdle ==
    /\ file = NoFile /\ prevFile = NoFile
    /\ lastBatch = EmptyDf /\ lastCall = "none"

\* direct calls of upsert_to_processed_csv, starting from no file
Init == UpsertIdle /\ MainIdle /\ HourIdle /\ GddIdle

Next == UpsertCall \/ ForgetCall

Spec == Init /\ [][Next]_vars

\* runs of main, starting from no file
NextMain ==
    \/ MainStart \/ DayFails \/ DayInterrupted \/ DayScraped
    \/ Finally \/ MainFinish \/ MainExit

SpecMain == Init /\ [][NextMain]_vars

\* a started run goes on up to the end of the try statement: every scrape
\* ends (WebDriverWait gives up after 10 s) and the finally clause is run
RunStep == DayFails \/ DayInterrupted \/ DayScraped \/ Finally

SpecMainFair == SpecMain /\ WF_vars(RunStep)

\* to_int_hour applied to one input
InitHour ==
    /\ UpsertIdle /\ MainIdle /\ GddIdle
    /\ hx \in HourInputs /\ hres = [done |-> FALSE, val |-> NA]

SpecHour == InitHour /\ [][ApplyToIntHour]_vars

\* add_gdd_columns applied to one daily table
InitGdd ==
    /\ UpsertIdle /\ MainIdle /\ HourIdle
    /\ daily_df \in DailyTables /\ gdd_out = [done |-> FALSE, rows |-> <<>>]

SpecGdd == InitGdd /\ [][AddGdd]_vars

----------------------------------------------------------------------------
(* Vocabulary of the properties *)

\* the row as normalize_df sees it has both key cells
HasKey(r) == NormRow(r).date # NA /\ NormRow(r).hour.kind = "int"

\* the measurement of a row, under whichever name its table has the column
Meas(r) == IF PlainCol \in DOMAIN r.vals THEN CsvIn(Replace(r.vals[PlainCol]))
           ELSE CsvIn(Replace(r.vals[UnitCol]))

\* (key, measurement) pairs of the rows of a file, all of them or one date's
Entries(f) == {<<Key(f.rows[i]), Meas(f.rows[i])>> : i \in 1..Len(f.rows)}
EntriesOf(f, d) == {e \in Entries(f) : e[1][1] = d}
KeysOf(f) == {Key(f.rows[i]) : i \in 1..Len(f.rows)}
BatchKeys(df) == {Key(NormRow(df.rows[i])) : i \in {j \in 1..Len(df.rows) : HasKey(df.rows[j])}}

\* index i holds the last row of the batch with its key
LastOfKey(df, i) ==
    /\ HasKey(df.rows[i])
    /\ \A j \in (i + 1)..Len(df.rows) :
          HasKey(df.rows[j]) => Key(NormRow(df.rows[j])) # Key(NormRow(df.rows[i]))

----------------------------------------------------------------------------
(* C1: after any sequence of upsert calls that starts from no file, the    *)
(* stored table has at most one row for each (date, hour) key.             *)
C1_OneRowPerKey ==
    file.exists =>
        \A i, j \in 1..Len(file.rows) :
            (file.rows[i].date = file.rows[j].date
             /\ file.rows[i].hour = file.rows[j].hour) => i = j

\* a call returned whose batch repeats a key and also brings a stored key
C1_Witness ==
    /\ lastCall = "returned" /\ prevFile.exists
    /\ BatchKeys(lastBatch) \cap KeysOf(prevFile) # {}
    /\ \E i, j \in 1..Len(lastBatch.rows) :
          /\ i < j /\ HasKey(lastBatch.rows[i]) /\ HasKey(lastBatch.rows[j])
          /\ Key(NormRow(lastBatch.rows[i])) = Key(NormRow(lastBatch.rows[j]))

(* C2: after an upsert call, the stored row of every key of the batch      *)
(* carries the values of the batch's row, not the stored ones; of several  *)
(* batch rows with one key, the last one is stored.                        *)
C2_BatchOverwrites ==
    lastCall = "returned" =>
        \A i \in 1..Len(lastBatch.rows) :
            LastOfKey(lastBatch, i) =>
                <<Key(NormRow(lastBatch.rows[i])), Meas(lastBatch.rows[i])>> \in Entries(file)

\* the batch had two rows of different values for a key that was stored
\* with the value of the first of them
C2_Witness ==
    /\ lastCall = "returned" /\ prevFile.exists
    /\ \E i, j \in 1..Len(lastBatch.rows) :
          /\ i < j /\ HasKey(lastBatch.rows[i]) /\ LastOfKey(lastBatch, j)
          /\ Key(NormRow(lastBatch.rows[i])) = Key(NormRow(lastBatch.rows[j]))
          /\ Meas(lastBatch.rows[i]) # Meas(lastBatch.rows[j])
          /\ <<Key(NormRow(lastBatch.rows[i])), Meas(lastBatch.rows[i])>> \in Entries(prevFile)

(* C3: upsert is idempotent: calling it again with the same batch leaves   *)
(* the stored table (rows, column names, values) as the first call left it.*)
C3_Idempotent ==
    lastCall = "returned" => UpsertResult(file, lastBatch) = file

(* C4: after every upsert call the stored rows are in ascending order of   *)
(* (date, hour).                                                           *)
C4_Ascending ==
    file.exists =>
        \A i, j \in 1..Len(file.rows) :
            i < j =>
                \/ file.rows[i].date.n < file.rows[j].date.n
                \/ /\ file.rows[i].date.n = file.rows[j].date.n
                   /\ file.rows[i].hour.n <= file.rows[j].hour.n

\* the batch came in descending order and its keys lie before a stored one
C4_Witness ==
    /\ lastCall = "returned" /\ prevFile.exists /\ Len(lastBatch.rows) = 2
    /\ HasKey(lastBatch.rows[1]) /\ HasKey(lastBatch.rows[2])
    /\ KeyLess(NormRow(lastBatch.rows[2]), NormRow(lastBatch.rows[1]))
    /\ \E k \in 1..Len(prevFile.rows) :
          KeyLess(NormRow(lastBatch.rows[1]), prevFile.rows[k])

(* C5: persistence is incremental: an upsert removes no stored key, every  *)
(* batch row with a valid date and hour has its key stored after the call, *)
(* and rows of keys that are not in the batch keep their values.           *)
C5_Incremental ==
    lastCall = "returned" =>
        /\ KeysOf(prevFile) \subseteq KeysOf(file)
        /\ BatchKeys(lastBatch) \subseteq KeysOf(file)
        /\ \A e \in Entries(prevFile) :
              e[1] \notin BatchKeys(lastBatch) => e \in Entries(file)

\* the call brought a new key and left a stored key alone
C5_Witness ==
    /\ lastCall = "returned"
    /\ KeysOf(prevFile) \ BatchKeys(lastBatch) # {}
    /\ BatchKeys(lastBatch) \ KeysOf(prevFile) # {}

(* C7: the stored table never has a row whose date or hour is missing or   *)
(* unparsable, whether the file existed before the call or not.            *)
C7_KeysPresent ==
    file.exists =>
        \A i \in 1..Len(file.rows) :
            file.rows[i].date.kind = "date" /\ file.rows[i].hour.kind = "int"

\* a call returned whose batch had a row with a bad date or a blank hour
C7_Witness ==
    /\ lastCall = "returned"
    /\ \E i \in 1..Len(lastBatch.rows) : ~HasKey(lastBatch.rows[i])
    /\ \E i \in 1..Len(lastBatch.rows) : HasKey(lastBatch.rows[i])

(* C6: add_gdd_columns keeps only the days on or after April 1 of their    *)
(* year; a kept day's GDD is max(0, mean temperature - base temperature);  *)
(* its cumulative GDD is the sum of the GDD of the kept days of the same   *)
(* year up to and including it.  (A day without a mean temperature has no  *)
(* GDD and no cumulative GDD, and adds nothing to the later sums.)         *)
OnOrAfterApril1(dt) == dt.m > 4 \/ (dt.m = 4 /\ dt.d >= 1)

Max0(n) == IF n > 0 THEN n ELSE 0

\* the sum of max(0, temp - base) over the days of daily_df[1..k] that are
\* on or after April 1 of the year of dt and not after dt
RECURSIVE GddSumUpTo(_, _)
GddSumUpTo(dt, k) ==
    IF k = 0 THEN 0
    ELSE GddSumUpTo(dt, k - 1)
         + (LET r == daily_df[k]
            IN  IF /\ r.date.ok /\ r.date.y = dt.y /\ OnOrAfterApril1(r.date)
                   /\ DtLeq(r.date, dt) /\ r.temp # NA
                THEN Max0(r.temp.n - BASE_TEMP_DEFAULT) ELSE 0)

C6_Gdd ==
    gdd_out.done =>
        \A i \in 1..Len(gdd_out.rows) :
            LET r == gdd_out.rows[i]
            IN  /\ OnOrAfterApril1(r.date)
                /\ \E k \in 1..Len(daily_df) :
                      daily_df[k].date = r.date /\ daily_df[k].temp = r.temp
                /\ IF r.temp = NA
                   THEN r.GDD = NA /\ r.cumGDD = NA
                   ELSE /\ r.GDD = Cell("num", Max0(r.temp.n - BASE_TEMP_DEFAULT))
                        /\ r.cumGDD = Cell("num", GddSumUpTo(r.date, Len(daily_df)))

\* a table with a day before April 1, and two later days of one year given
\* latest first, one colder and one warmer than the base temperature
C6_Witness ==
    /\ gdd_out.done /\ Len(daily_df) = 3 /\ Len(gdd_out.rows) = 2
    /\ \E k \in 1..3 : daily_df[k].date.ok /\ ~OnOrAfterApril1(daily_df[k].date)
    /\ gdd_out.rows[1].date.y = gdd_out.rows[2].date.y
    /\ gdd_out.rows[1].GDD = Cell("num", 2)
    /\ gdd_out.rows[2].temp = Cell("num", 8)
    /\ gdd_out.rows[2].cumGDD = Cell("num", 2)
    /\ \E i, j \in 1..3 :
          i < j /\ daily_df[i].date = gdd_out.rows[2].date
                /\ daily_df[j].date = gdd_out.rows[1].date

(* C8: to_int_hour gives an integer in 0..23 or a missing value: 24 gives  *)
(* 0, empty, "nan" and non numeric input give missing, and no input gives  *)
(* an integer outside 0..23.                                               *)
C8_HourInRange ==
    hres.done =>
        /\ hres.val = NA \/ (hres.val.kind = "int" /\ hres.val.n \in 0..23)
        /\ hx \in {Cell("numstr", 240), Cell("int", 24)} => hres.val = Cell("int", 0)
        /\ hx.kind \in {"", "nan", "text"} => hres.val = NA

(* C9: main attempts every day 1..days_in_month once, in ascending order;  *)
(* a day whose scrape raises an exception or returns zero rows adds no row *)
(* to the batch, does not stop the later days, and the rows stored for it  *)
(* are unchanged after the final upsert.                                   *)
C9_FailedDaySkipped ==
    /\ \A i \in 1..Len(attempted) : attempted[i] = i
    /\ Len(outcome) = Len(attempted)
    /\ pc \in {"finally", "check", "done"} => Len(attempted) = days_in_month
    /\ \A i \in 1..Len(all_data) :
          /\ all_data[i].date.n \in 1..Len(outcome)
          /\ outcome[all_data[i].date.n] = "rows"
    /\ pc = "done" =>
          \A d \in 1..days_in_month :
              outcome[d] \in {"error", "zero"} =>
                  EntriesOf(file, d) = EntriesOf(fileAtStart, d)

\* day 1 failed with rows stored for it, day 2 was scraped and upserted
C9_Witness ==
    /\ pc = "done" /\ lastCall = "returned"
    /\ outcome[1] = "error" /\ outcome[days_in_month] = "rows"
    /\ EntriesOf(fileAtStart, 1) # {}
    /\ file # fileAtStart

(* C10: when no day yields a row, main ends without calling upsert and the *)
(* stored file is as it was: not created, not rewritten.                   *)
C10_NoDataNoWrite ==
    (pc = "done" /\ all_data = <<>>) => (file = fileAtStart /\ lastCall = "none")

\* main ended with every day failed or empty
C10_Witness ==
    /\ pc = "done" /\ all_data = <<>>
    /\ Len(attempted) = days_in_month
    /\ \E d \in 1..days_in_month : outcome[d] = "zero"

(* C11: once main has created the browser driver, driver.quit() is         *)
(* eventually executed on every path (all days succeed, some fail, or an   *)
(* uncaught error leaves the loop), and it is executed before any write to *)
(* the stored file.                                                        *)
C11_QuitAlwaysAndFirst ==
    /\ (driver = "open") ~> (driver = "quit")
    /\ [][(file' # file \/ (lastCall = "none" /\ lastCall' # "none"))
            => driver = "quit"]_vars

\* a run with a failed day has quit the driver and then written the file
C11_Witness ==
    /\ pc = "done" /\ driver = "quit"
    /\ lastCall = "returned" /\ file # fileAtStart
    /\ \E d \in 1..days_in_month : outcome[d] = "error"

====
